---- MODULE Spec2Model ----
(***************************************************************************)
(* discord-presence-rs: the IPC transport locator, the frame codec and the *)
(* Client session of src/src/discord_connection.rs.                        *)
(*                                                                         *)
(* Byte strings are sequences of naturals.  An element below Bulk is one   *)
(* byte.  An element Bulk + u stands for a run of 2^32 - u bytes FillByte  *)
(* (a run of 2^32 bytes of which u have been consumed), so that a String   *)
(* longer than the u32 range can be written down.  Lengths are kept at the *)
(* width of the Rust types as little-endian 16-bit limbs: a usize is four  *)
(* limbs, a u32 is two.                                                    *)
(***************************************************************************)
EXTENDS Integers, Sequences, FiniteSets, TLC

VARIABLES
    target,      \* build target: "unix" or "windows" (cfg(unix) / cfg(windows))
    xdg,         \* state of the variable XDG_RUNTIME_DIR
    tmpdir,      \* state of the variable TMPDIR
    endpoints,   \* endpoints[ns][i]: state of candidate discord-ipc-i in namespace ns
    probes,      \* the calls connect() has made on candidates, in order
    connResult,  \* what connect() returned
    client_id,   \* Client.client_id
    pc,          \* position of the caller: in Client::new or after it
    newResult,   \* what Client::new returned
    rd,          \* progress of read_ipc (its three read_exact calls)
    tx,          \* bytes the client has written to the transport
    frames,      \* one entry per write_ipc call: what it put on the wire
    rxBuf,       \* bytes received from the peer and not yet read
    rxRead,      \* number of bytes the client has read from the transport
    peerScript,  \* bytes the peer has still to send
    peerSent,    \* all bytes the peer has sent so far
    rxEof,       \* the peer has closed its end
    calls,       \* one entry per set_activity/close call made on the Client
    codec,       \* the frame codec on a loop-back buffer: frames written and read
    acked,       \* number of Message frames the peer has acknowledged
    race         \* two callers of one Client, write_all by write_all

vars ==
    <<target, xdg, tmpdir, endpoints, probes, connResult, client_id, pc,
      newResult, rd, tx, frames, rxBuf, rxRead, peerScript, peerSent, rxEof,
      calls, codec, acked, race>>

(***************************************************************************)
(* Bounds of the model.                                                    *)
(***************************************************************************)
\* at most this many candidates are present (live or dead) in an environment
MaxEndpoints == 2
\* at most this many set_activity/close calls follow a construction
MaxOps == 2
\* a failing write_all lets at most this many bytes of its buffer through
MaxPartial == 0
\* the peer hands at most this many bytes to the transport in one step
MaxChunk == 2
\* the process id reported by std::process::id()
ProcessId == 4242
\* number of frames write_ipc puts into the loop-back buffer of the codec
MaxCodecFrames == 2

(***************************************************************************)
(* Integer widths.                                                         *)
(***************************************************************************)
\* one limb of a length holds 16 bits
LimbBase == 65536
\* one byte holds 8 bits
ByteBase == 256
\* the least element that is no byte: a whole run of 2^32 bytes
Bulk == 256
\* the byte the runs are made of: the letter a of a long details text
FillByte == 97

Min(a, b) == IF a < b THEN a ELSE b

\* carries (and borrows) between the four 16-bit limbs of a usize
Normalize(n) ==
    LET c1 == n[1] \div LimbBase
        c2 == (n[2] + c1) \div LimbBase
        c3 == (n[3] + c2) \div LimbBase
    IN  <<n[1] % LimbBase, (n[2] + c1) % LimbBase, (n[3] + c2) % LimbBase,
          (n[4] + c3) % LimbBase>>

\* the places of s that hold a run of 2^32 bytes
BulkAt(s) == {i \in DOMAIN s : s[i] >= Bulk}

\* the bytes already consumed of the runs at the places I of s
RECURSIVE UsedOf(_, _)
UsedOf(s, I) ==
    IF I = {} THEN 0
    ELSE LET i == CHOOSE j \in I : TRUE IN (s[i] - Bulk) + UsedOf(s, I \ {i})

\* [u8]::len(): the usize number of bytes of s
usize_len(s) ==
    Normalize(<<Len(s) - Cardinality(BulkAt(s)) - UsedOf(s, BulkAt(s)), 0,
                Cardinality(BulkAt(s)), 0>>)

\* `len as u32`: keeps the low 32 bits
as_u32(n) == <<n[1], n[2]>>

\* `len as usize`: zero-extends
as_usize(u) == <<u[1], u[2], 0, 0>>

\* a u32 literal
U32(k) == <<k % LimbBase, k \div LimbBase>>

\* u32::to_le_bytes
to_le_bytes(u) ==
    <<u[1] % ByteBase, u[1] \div ByteBase, u[2] % ByteBase, u[2] \div ByteBase>>

\* u32::from_le_bytes
from_le_bytes(b) == <<b[1] + ByteBase * b[2], b[3] + ByteBase * b[4]>>

\* a usize as a number (only for values below 2^31)
UsizeToInt(n) == n[1] + LimbBase * n[2]

\* u32 -> to_string(): decimal digits, most significant first
RECURSIVE ToDecimal(_)
ToDecimal(k) ==
    IF k < 10 THEN <<48 + k>> ELSE Append(ToDecimal(k \div 10), 48 + (k % 10))

(***************************************************************************)
(* Texts.                                                                  *)
(***************************************************************************)
\* {"client_id":"
HandshakeHead ==
    <<123, 34, 99, 108, 105, 101, 110, 116, 95, 105, 100, 34, 58, 34>>

\* ","v":1}
HandshakeTail ==
    <<34, 44, 34, 118, 34, 58, 49, 125>>

\* {"args":{"activity":
SetActivityHead ==
    <<123, 34, 97, 114, 103, 115, 34, 58, 123, 34, 97, 99, 116, 105, 118,
      105, 116, 121, 34, 58>>

\* ,"pid":
SetActivityPid ==
    <<44, 34, 112, 105, 100, 34, 58>>

\* },"cmd":"SET_ACTIVITY","nonce":"
SetActivityCmd ==
    <<125, 44, 34, 99, 109, 100, 34, 58, 34, 83, 69, 84, 95, 65, 67, 84, 73,
      86, 73, 84, 89, 34, 44, 34, 110, 111, 110, 99, 101, 34, 58, 34>>

\* "}
SetActivityTail ==
    <<34, 125>>

\* {}
ActivityEmpty ==
    <<123, 125>>

\* {"details":"
ActivityDetailsHead ==
    <<123, 34, 100, 101, 116, 97, 105, 108, 115, 34, 58, 34>>

\* "}
ActivityDetailsTail ==
    <<34, 125>>

\* 6f1c2a34-9b1e-4c7d-8a55-0d3e5f7a9b2
NonceHead ==
    <<54, 102, 49, 99, 50, 97, 51, 52, 45, 57, 98, 49, 101, 45, 52, 99, 55,
      100, 45, 56, 97, 53, 53, 45, 48, 100, 51, 101, 53, 102, 55, 97, 57, 98,
      50>>

\* 1
ClientIdA ==
    <<49>>

\* 42
ClientIdB ==
    <<52, 50>>

\* {"cmd":"DISPATCH","evt":"READY"}
TextReady ==
    <<123, 34, 99, 109, 100, 34, 58, 34, 68, 73, 83, 80, 65, 84, 67, 72, 34,
      44, 34, 101, 118, 116, 34, 58, 34, 82, 69, 65, 68, 89, 34, 125>>

\* {"cmd":"DISPATCH","data":{},"evt":"READY"}
TextReadyData ==
    <<123, 34, 99, 109, 100, 34, 58, 34, 68, 73, 83, 80, 65, 84, 67, 72, 34,
      44, 34, 100, 97, 116, 97, 34, 58, 123, 125, 44, 34, 101, 118, 116, 34,
      58, 34, 82, 69, 65, 68, 89, 34, 125>>

\* {"cmd":"DISPATCH","evt":"ERROR"}
TextError ==
    <<123, 34, 99, 109, 100, 34, 58, 34, 68, 73, 83, 80, 65, 84, 67, 72, 34,
      44, 34, 101, 118, 116, 34, 58, 34, 69, 82, 82, 79, 82, 34, 125>>

\* {"evt":"READY"}
TextNoCmd ==
    <<123, 34, 101, 118, 116, 34, 58, 34, 82, 69, 65, 68, 89, 34, 125>>

\* {"cmd":"DISPATCH"}
TextNoEvt ==
    <<123, 34, 99, 109, 100, 34, 58, 34, 68, 73, 83, 80, 65, 84, 67, 72, 34,
      125>>

\* {"cmd":1,"evt":"READY"}
TextCmdNumber ==
    <<123, 34, 99, 109, 100, 34, 58, 49, 44, 34, 101, 118, 116, 34, 58, 34,
      82, 69, 65, 68, 89, 34, 125>>

\* []
TextArray ==
    <<91, 93>>

\* {"cmd":"DISPATCH"
TextTruncated ==
    <<123, 34, 99, 109, 100, 34, 58, 34, 68, 73, 83, 80, 65, 84, 67, 72, 34>>

\* {"cmd":"SET_ACTIVITY","evt":null}
TextAck ==
    <<123, 34, 99, 109, 100, 34, 58, 34, 83, 69, 84, 95, 65, 67, 84, 73, 86,
      73, 84, 89, 34, 44, 34, 101, 118, 116, 34, 58, 110, 117, 108, 108, 125>>

\* one byte 0xFF: not UTF-8
TextBadUtf8 ==
    <<255>>

\* U+FFFD REPLACEMENT CHARACTER in UTF-8
TextReplacement ==
    <<239, 191, 189>>

(***************************************************************************)
(* serde_json, as far as handshake() uses it.  A Value has a type tag t,   *)
(* the text s of a String and the members m of an Object.                  *)
(***************************************************************************)
JNull == [t |-> "Null", s |-> "", m |-> <<>>]
JString(x) == [t |-> "String", s |-> x, m |-> <<>>]
JNumber(x) == [t |-> "Number", s |-> x, m |-> <<>>]
JArray == [t |-> "Array", s |-> "", m |-> <<>>]
JObject(members) == [t |-> "Object", s |-> "", m |-> members]

\* serde_json::from_str on the texts a peer of the model can send; every
\* other text that reaches it is a cut or an extension of one of these by
\* non-blank bytes, which is not JSON
from_str(text) ==
    CASE text = TextReady ->
            [ok |-> TRUE,
             value |-> JObject([cmd |-> JString("DISPATCH"), evt |-> JString("READY")])]
      [] text = TextReadyData ->
            [ok |-> TRUE,
             value |-> JObject([cmd |-> JString("DISPATCH"), data |-> JObject(<<>>),
                                evt |-> JString("READY")])]
      [] text = TextError ->
            [ok |-> TRUE,
             value |-> JObject([cmd |-> JString("DISPATCH"), evt |-> JString("ERROR")])]
      [] text = TextNoCmd ->
            [ok |-> TRUE, value |-> JObject([evt |-> JString("READY")])]
      [] text = TextNoEvt ->
            [ok |-> TRUE, value |-> JObject([cmd |-> JString("DISPATCH")])]
      [] text = TextCmdNumber ->
            [ok |-> TRUE,
             value |-> JObject([cmd |-> JNumber("1"), evt |-> JString("READY")])]
      [] text = TextArray -> [ok |-> TRUE, value |-> JArray]
      [] OTHER -> [ok |-> FALSE, value |-> JNull]

\* Value's Index<&str>: Null unless the value is an Object with that member
Index(v, key) ==
    IF v.t = "Object" /\ key \in DOMAIN v.m THEN v.m[key] ELSE JNull

\* Value::as_str: an Option, as a set of at most one element
as_str(v) == IF v.t = "String" THEN {v.s} ELSE {}

\* variant of IsReady: the test of "evt" left out
IsReadyOnlyCmd(v) == as_str(Index(v, "cmd")) = {"DISPATCH"}

\* the acceptance test of handshake()
IsReady(v) ==
    /\ as_str(Index(v, "cmd")) = {"DISPATCH"}
    /\ as_str(Index(v, "evt")) = {"READY"}

\* variant of HandshakeVerdict: a parse error reported as HandshakeFailed
JsonAsHandshakeFailed(response) ==
    LET parsed == from_str(response)
    IN  IF parsed.ok /\ IsReady(parsed.value) THEN "Ok" ELSE "HandshakeFailed"

\* variant of HandshakeVerdict: every response that is JSON is accepted
AnyJsonIsReady(response) ==
    IF from_str(response).ok THEN "Ok" ELSE "Json"

\* what handshake() returns once read_ipc has returned `response`
HandshakeVerdict(response) ==
    LET parsed == from_str(response)
    IN  IF ~parsed.ok THEN "Json"
        ELSE IF IsReady(parsed.value) THEN "Ok"
        ELSE "HandshakeFailed"

\* String::from_utf8_lossy on strings of ASCII bytes, whole encodings of
\* U+FFFD and bytes that occur in no UTF-8 text
RECURSIVE from_utf8_lossy(_)
from_utf8_lossy(b) ==
    IF b = <<>> THEN <<>>
    ELSE IF Head(b) < 128 THEN <<Head(b)>> \o from_utf8_lossy(Tail(b))
    ELSE IF Len(b) >= 3 /\ SubSeq(b, 1, 3) = TextReplacement
         THEN TextReplacement \o from_utf8_lossy(SubSeq(b, 4, Len(b)))
    ELSE TextReplacement \o from_utf8_lossy(Tail(b))

(***************************************************************************)
(* Payloads the client builds.                                             *)
(***************************************************************************)
\* json!({"v": 1, "client_id": id}).to_string(): members in key order
HandshakePayload(id) == HandshakeHead \o id \o HandshakeTail

\* serde_json::to_string of the Activity values of the model
ActivityHuge == ActivityDetailsHead \o <<Bulk>> \o ActivityDetailsTail

Activities == {ActivityEmpty, ActivityHuge}

\* Uuid::new_v4().to_string(): the token of the n-th call; the tokens of
\* successive calls differ
Nonce(n) == NonceHead \o <<48 + (n % 10)>>

ClientIds == {ClientIdA, ClientIdB}

\* the payload of set_activity
SetActivityPayload(activity, nonce) ==
    SetActivityHead \o activity \o SetActivityPid \o ToDecimal(ProcessId)
        \o SetActivityCmd \o nonce \o SetActivityTail

(***************************************************************************)
(* Writing: write_all and write_ipc.  A fault [at |-> k, cut |-> c] makes  *)
(* the k-th write_all of a write_ipc fail after c bytes; at = 0 is no      *)
(* fault.                                                                  *)
(***************************************************************************)
NoFault == [at |-> 0, cut |-> 0]

Faults == {NoFault} \cup [at : 1..3, cut : 0..MaxPartial]

\* Write::write_all: an empty buffer is written without any call to write
write_all(buf, failing, cut) ==
    IF failing /\ buf # <<>>
    THEN [ok |-> FALSE, out |-> SubSeq(buf, 1, Min(cut, Len(buf) - 1))]
    ELSE [ok |-> TRUE, out |-> buf]

\* `payload_bytes.len() as u32`
HeaderLen(payload_bytes) == as_u32(usize_len(payload_bytes))

write_ipc(opcode, payload, fault) ==
    LET payload_bytes == payload
        len == HeaderLen(payload_bytes)
        w1 == write_all(to_le_bytes(U32(opcode)), fault.at = 1, fault.cut)
        w2 == write_all(to_le_bytes(len), fault.at = 2, fault.cut)
        w3 == write_all(payload_bytes, fault.at = 3, fault.cut)
    IN  IF ~w1.ok THEN [ok |-> FALSE, out |-> w1.out]
        ELSE IF ~w2.ok THEN [ok |-> FALSE, out |-> w1.out \o w2.out]
        ELSE IF ~w3.ok THEN [ok |-> FALSE, out |-> w1.out \o w2.out \o w3.out]
        ELSE [ok |-> TRUE, out |-> w1.out \o w2.out \o w3.out]

(***************************************************************************)
(* Reading: read_ipc as its sequence of read calls.                        *)
(***************************************************************************)
\* the first n bytes of rx and what is left of rx
RECURSIVE Take(_, _)
Take(rx, n) ==
    IF n = 0 \/ rx = <<>> THEN <<<<>>, rx>>
    ELSE IF Head(rx) < Bulk
         THEN LET t == Take(Tail(rx), n - 1) IN <<<<Head(rx)>> \o t[1], t[2]>>
         ELSE LET t == Take(<<Head(rx) + 1>> \o Tail(rx), n - 1)
              IN  <<<<FillByte>> \o t[1], t[2]>>

\* split: some read_exact needed more than one call of read
RdStart ==
    [stage |-> "opcode", opcode_buf |-> <<>>, len_buf |-> <<>>, payload_buf |-> <<>>,
     split |-> FALSE]

\* variant of PayloadWant: a payload buffer one byte too long
PayloadWantPlusOne(len_buf) == UsizeToInt(as_usize(from_le_bytes(len_buf))) + 1

\* the payload length read_ipc takes from the header
PayloadWant(len_buf) == UsizeToInt(as_usize(from_le_bytes(len_buf)))

\* one call of read inside read_exact: it fills as much of the rest of the
\* buffer as rx holds
ReadInto(got, want, rx) ==
    LET t == Take(rx, want - Len(got)) IN [got |-> got \o t[1], rest |-> t[2]]

\* variant of ReadCall: the payload is what one call of read returns
ReadCallOnce(r, rx) ==
    CASE r.stage = "opcode" ->
            LET s == ReadInto(r.opcode_buf, 4, rx)
            IN  [rd |-> [r EXCEPT !.opcode_buf = s.got,
                                  !.split = r.split \/ Len(s.got) < 4,
                                  !.stage = IF Len(s.got) = 4 THEN "len" ELSE "opcode"],
                 rest |-> s.rest]
      [] r.stage = "len" ->
            LET s == ReadInto(r.len_buf, 4, rx)
            IN  [rd |-> [r EXCEPT !.len_buf = s.got,
                                  !.split = r.split \/ Len(s.got) < 4,
                                  !.stage = IF Len(s.got) < 4 THEN "len"
                                            ELSE IF PayloadWant(s.got) = 0 THEN "done"
                                            ELSE "payload"],
                 rest |-> s.rest]
      [] r.stage = "payload" ->
            LET want == PayloadWant(r.len_buf)
                s == ReadInto(r.payload_buf, want, rx)
            IN  [rd |-> [r EXCEPT !.payload_buf = s.got,
                                  !.split = r.split \/ Len(s.got) < want,
                                  !.stage = "done"],
                 rest |-> s.rest]

\* one call of ipc.read by read_ipc, rx not empty
ReadCall(r, rx) ==
    CASE r.stage = "opcode" ->
            LET s == ReadInto(r.opcode_buf, 4, rx)
            IN  [rd |-> [r EXCEPT !.opcode_buf = s.got,
                                  !.split = r.split \/ Len(s.got) < 4,
                                  !.stage = IF Len(s.got) = 4 THEN "len" ELSE "opcode"],
                 rest |-> s.rest]
      [] r.stage = "len" ->
            LET s == ReadInto(r.len_buf, 4, rx)
            IN  [rd |-> [r EXCEPT !.len_buf = s.got,
                                  !.split = r.split \/ Len(s.got) < 4,
                                  !.stage = IF Len(s.got) < 4 THEN "len"
                                            ELSE IF PayloadWant(s.got) = 0 THEN "done"
                                            ELSE "payload"],
                 rest |-> s.rest]
      [] r.stage = "payload" ->
            LET want == PayloadWant(r.len_buf)
                s == ReadInto(r.payload_buf, want, rx)
            IN  [rd |-> [r EXCEPT !.payload_buf = s.got,
                                  !.split = r.split \/ Len(s.got) < want,
                                  !.stage = IF Len(s.got) = want THEN "done"
                                            ELSE "payload"],
                 rest |-> s.rest]

\* read returned 0 bytes: read_exact fails with UnexpectedEof
ReadEof(r) == [r EXCEPT !.stage = "failed"]

\* the String read_ipc returns
ReadIpcValue(r) == from_utf8_lossy(r.payload_buf)

\* bytes read_ipc has taken from the transport so far
RdConsumed(r) == Len(r.opcode_buf) + Len(r.len_buf) + Len(r.payload_buf)

(***************************************************************************)
(* Transport Locator: Ipc::connect for UnixIpc and WindowsIpc.             *)
(***************************************************************************)
NumCandidates == 10

Candidates == 0..(NumCandidates - 1)

\* the directories the two variables name, and the pipe namespace \\.\pipe
Namespaces == {"xdg", "tmp", "pipe"}

\* A candidate is "absent" (no such path or pipe), "dead" (it exists and
\* connecting to it fails: stale socket file, permission denied, busy pipe)
\* or "live" (a peer accepts the connection).

\* std::env::var: Err when the variable is unset or is not Unicode
VarStates == {"unset", "nonunicode", "set"}

Probe(ns, i, call) == [ns |-> ns, i |-> i, call |-> call]

ConnOk(ns, i, log) == [kind |-> "Ok", err |-> "", ns |-> ns, index |-> i, log |-> log]

ConnErr(e, log) == [kind |-> "Err", err |-> e, ns |-> "", index |-> -1, log |-> log]

ConnPanic == [kind |-> "panic", err |-> "", ns |-> "", index |-> -1, log |-> <<>>]

ConnNone == [kind |-> "none", err |-> "", ns |-> "", index |-> -1, log |-> <<>>]

\* env::var("XDG_RUNTIME_DIR").or_else(|_| env::var("TMPDIR")): "none" is Err
UnixBase(x, t) == IF x = "set" THEN "xdg" ELSE IF t = "set" THEN "tmp" ELSE "none"

\* the loop of UnixIpc::connect from candidate i on
RECURSIVE UnixLoop(_, _, _, _)
UnixLoop(ep, ns, i, log) ==
    IF i >= NumCandidates THEN ConnErr("ConnectionNotFound", log)
    ELSE LET seen == Append(log, Probe(ns, i, "exists"))
         IN  IF ep[ns][i] = "absent" THEN UnixLoop(ep, ns, i + 1, seen)
             ELSE LET tried == Append(seen, Probe(ns, i, "connect"))
                  IN  IF ep[ns][i] = "live" THEN ConnOk(ns, i, tried)
                      ELSE ConnErr("Io", tried)

UnixConnect(ep, x, t) ==
    LET base == UnixBase(x, t)
    IN  IF base = "none" THEN ConnPanic ELSE UnixLoop(ep, base, 0, <<>>)

\* the loop of WindowsIpc::connect from candidate i on
RECURSIVE WindowsLoop(_, _, _)
WindowsLoop(ep, i, log) ==
    IF i >= NumCandidates THEN ConnErr("ConnectionNotFound", log)
    ELSE LET tried == Append(log, Probe("pipe", i, "open"))
         IN  IF ep["pipe"][i] = "live" THEN ConnOk("pipe", i, tried)
             ELSE WindowsLoop(ep, i + 1, tried)

WindowsConnect(ep) == WindowsLoop(ep, 0, <<>>)

Connect(tg, ep, x, t) ==
    IF tg = "unix" THEN UnixConnect(ep, x, t) ELSE WindowsConnect(ep)

(***************************************************************************)
(* Environments and peers of the model.                                    *)
(***************************************************************************)
RECURSIVE SubsetsUpTo(_, _)
SubsetsUpTo(S, k) ==
    IF k = 0 THEN {{}}
    ELSE LET smaller == SubsetsUpTo(S, k - 1)
         IN  smaller \cup {T \cup {x} : T \in smaller, x \in S}

\* the endpoint maps with at most k candidates present, all in namespaces nss
EndpointMaps(nss, k) ==
    LET slots == nss \X Candidates
        present == UNION {[S -> {"dead", "live"}] : S \in SubsetsUpTo(slots, k)}
    IN  {[ns \in Namespaces |->
            [i \in Candidates |->
                IF <<ns, i>> \in DOMAIN f THEN f[<<ns, i>>] ELSE "absent"]] :
         f \in present}

NoEndpoints == [ns \in Namespaces |-> [i \in Candidates |-> "absent"]]

\* a peer's frame: Discord writes the same layout
PeerFrame(opcode, payload) ==
    to_le_bytes(U32(opcode)) \o to_le_bytes(as_u32(usize_len(payload))) \o payload

ResponsePayloads ==
    {TextReady, TextReadyData, TextError, TextNoCmd, TextNoEvt, TextCmdNumber,
     TextArray, TextTruncated, TextBadUtf8, TextReplacement, <<>>}

\* the peer sends one response frame; one peer sends a READY frame behind a
\* frame that is not a READY
PeerScripts ==
    {PeerFrame(1, p) : p \in ResponsePayloads}
        \cup {PeerFrame(1, TextArray) \o PeerFrame(1, TextReady)}

(***************************************************************************)
(* Initial states.                                                         *)
(***************************************************************************)
\* two callers that have not called yet
Callers == {"first", "second"}

RaceStart(exclusive) ==
    [exclusive |-> exclusive, out |-> <<>>, order |-> <<>>,
     job |-> [c \in Callers |-> [opcode |-> 2, payload |-> <<>>]],
     at |-> [c \in Callers |-> "idle"]]

InitRest ==
    /\ probes = <<>>
    /\ connResult = ConnNone
    /\ pc = "start"
    /\ newResult = "none"
    /\ rd = RdStart
    /\ tx = <<>>
    /\ frames = <<>>
    /\ rxBuf = <<>>
    /\ rxRead = 0
    /\ peerSent = <<>>
    /\ rxEof = FALSE
    /\ calls = <<>>
    /\ codec = [buf |-> <<>>, sent |-> <<>>, got |-> <<>>]
    /\ acked = 0

\* the session: the peer listens on candidate 0 of the first namespace, or
\* there is no peer
Init ==
    /\ target \in {"unix", "windows"}
    /\ xdg = IF target = "unix" THEN "set" ELSE "unset"
    /\ tmpdir = "unset"
    /\ endpoints \in
         {NoEndpoints,
          [NoEndpoints EXCEPT ![IF target = "unix" THEN "xdg" ELSE "pipe"][0] = "live"]}
    /\ client_id \in ClientIds
    /\ peerScript \in PeerScripts
    /\ InitRest
    /\ race = RaceStart(FALSE)

\* the locator: every environment with at most MaxEndpoints candidates present
InitLocator ==
    /\ target \in {"unix", "windows"}
    /\ xdg \in (IF target = "unix" THEN VarStates ELSE {"unset"})
    /\ tmpdir \in (IF target = "unix" THEN VarStates ELSE {"unset"})
    /\ endpoints \in
         EndpointMaps(IF target = "unix" THEN {"xdg", "tmp"} ELSE {"pipe"}, MaxEndpoints)
    /\ client_id \in ClientIds
    /\ peerScript = PeerFrame(1, TextReady)
    /\ InitRest
    /\ race = RaceStart(FALSE)

\* the codec alone: no session
InitCodec ==
    /\ target = "unix"
    /\ xdg = "set"
    /\ tmpdir = "unset"
    /\ endpoints = NoEndpoints
    /\ client_id = ClientIdA
    /\ peerScript = <<>>
    /\ InitRest
    /\ race = RaceStart(FALSE)

(***************************************************************************)
(* Client::new, up to its first blocking read: connect(), then the write   *)
(* of the Handshake frame by handshake().                                  *)
(***************************************************************************)
FrameEntry(opcode, payload, w) ==
    [opcode |-> opcode, payload |-> payload, out |-> w.out, ok |-> w.ok]

ClientNew ==
    /\ pc = "start"
    /\ LET c == Connect(target, endpoints, xdg, tmpdir)
       IN  /\ connResult' = c
           /\ probes' = c.log
           /\ IF c.kind = "panic"
              THEN /\ pc' = "aborted"
                   /\ UNCHANGED <<newResult, tx, frames>>
              ELSE IF c.kind = "Err"
              THEN /\ pc' = "returned"
                   /\ newResult' = c.err
                   /\ UNCHANGED <<tx, frames>>
              ELSE \E fault \in Faults :
                      LET payload == HandshakePayload(client_id)
                          w == write_ipc(0, payload, fault)
                      IN  /\ tx' = tx \o w.out
                          /\ frames' = Append(frames, FrameEntry(0, payload, w))
                          /\ IF w.ok
                             THEN /\ pc' = "reading"
                                  /\ UNCHANGED newResult
                             ELSE /\ pc' = "returned"
                                  /\ newResult' = "Io"
    /\ UNCHANGED <<target, xdg, tmpdir, endpoints, client_id, rd, rxBuf, rxRead,
                   peerScript, peerSent, rxEof, calls, codec, acked, race>>

(***************************************************************************)
(* handshake(), continued: one call of read by read_ipc; when read_ipc     *)
(* returns, handshake and Client::new return with it.                      *)
(***************************************************************************)
\* variant of ReadStep: a read that finds nothing gives up
ReadStepTimesOut ==
    /\ pc = "reading"
    /\ \/ /\ rxBuf # <<>>
          /\ LET c == ReadCall(rd, rxBuf)
             IN  /\ rd' = c.rd
                 /\ rxBuf' = c.rest
                 /\ rxRead' = rxRead + (RdConsumed(c.rd) - RdConsumed(rd))
                 /\ IF c.rd.stage = "done"
                    THEN /\ newResult' = HandshakeVerdict(ReadIpcValue(c.rd))
                         /\ pc' = "returned"
                    ELSE UNCHANGED <<newResult, pc>>
       \/ /\ rxBuf = <<>>
          /\ rd' = ReadEof(rd)
          /\ newResult' = "Io"
          /\ pc' = "returned"
          /\ UNCHANGED <<rxBuf, rxRead>>
    /\ UNCHANGED <<target, xdg, tmpdir, endpoints, probes, connResult, client_id,
                   tx, frames, peerScript, peerSent, rxEof, calls, codec,
                   acked, race>>

ReadStep ==
    /\ pc = "reading"
    /\ \/ /\ rxBuf # <<>>
          /\ LET c == ReadCall(rd, rxBuf)
             IN  /\ rd' = c.rd
                 /\ rxBuf' = c.rest
                 /\ rxRead' = rxRead + (RdConsumed(c.rd) - RdConsumed(rd))
                 /\ IF c.rd.stage = "done"
                    THEN /\ newResult' = HandshakeVerdict(ReadIpcValue(c.rd))
                         /\ pc' = "returned"
                    ELSE UNCHANGED <<newResult, pc>>
       \/ /\ rxBuf = <<>>
          /\ rxEof
          /\ rd' = ReadEof(rd)
          /\ newResult' = "Io"
          /\ pc' = "returned"
          /\ UNCHANGED <<rxBuf, rxRead>>
    /\ UNCHANGED <<target, xdg, tmpdir, endpoints, probes, connResult, client_id,
                   tx, frames, peerScript, peerSent, rxEof, calls, codec,
                   acked, race>>

(***************************************************************************)
(* The peer: it sends its script in chunks of any size, and may close.     *)
(***************************************************************************)
PeerSend ==
    /\ pc = "reading"
    /\ ~rxEof
    /\ peerScript # <<>>
    /\ \E k \in 1..Min(MaxChunk, Len(peerScript)) :
          /\ rxBuf' = rxBuf \o SubSeq(peerScript, 1, k)
          /\ peerSent' = peerSent \o SubSeq(peerScript, 1, k)
          /\ peerScript' = SubSeq(peerScript, k + 1, Len(peerScript))
    /\ UNCHANGED <<target, xdg, tmpdir, endpoints, probes, connResult, client_id,
                   pc, newResult, rd, tx, frames, rxRead, rxEof, calls, codec,
                   acked, race>>

PeerClose ==
    /\ pc = "reading"
    /\ ~rxEof
    /\ rxEof' = TRUE
    /\ peerScript' = <<>>
    /\ UNCHANGED <<target, xdg, tmpdir, endpoints, probes, connResult, client_id,
                   pc, newResult, rd, tx, frames, rxBuf, rxRead, peerSent, calls,
                   codec, acked, race>>

(***************************************************************************)
(* set_activity and close on a Client that Client::new returned.           *)
(***************************************************************************)
CallEntry(op, w) == [op |-> op, ok |-> w.ok, wrote |-> Len(w.out)]

\* the Message frames that went out whole
MessagesWritten == {k \in DOMAIN frames : frames[k].opcode = 1 /\ frames[k].ok}

\* the frame Discord answers a SET_ACTIVITY command with
AckFrame == PeerFrame(1, TextAck)

\* read_ipc from start to return on the bytes at hand
RECURSIVE RunRead(_, _)
RunRead(r, rx) ==
    IF r.stage \in {"done", "failed"} THEN [rd |-> r, rest |-> rx]
    ELSE IF rx = <<>> THEN [rd |-> ReadEof(r), rest |-> rx]
    ELSE LET c == ReadCall(r, rx) IN RunRead(c.rd, c.rest)

\* the peer answers a Message frame it has not answered yet
PeerAck ==
    /\ pc = "returned"
    /\ newResult = "Ok"
    /\ ~rxEof
    /\ acked < Cardinality(MessagesWritten)
    /\ acked' = acked + 1
    /\ rxBuf' = rxBuf \o AckFrame
    /\ peerSent' = peerSent \o AckFrame
    /\ UNCHANGED <<target, xdg, tmpdir, endpoints, probes, connResult, client_id,
                   pc, newResult, rd, tx, frames, rxRead, peerScript, rxEof, calls,
                   codec, race>>

\* set_activity followed by a read of the frame that answers it
SetActivityReadsAck ==
    /\ pc = "returned"
    /\ newResult = "Ok"
    /\ Len(calls) < MaxOps
    /\ \E activity \in Activities, fault \in Faults :
          LET payload == SetActivityPayload(activity, Nonce(Len(calls)))
              w == write_ipc(1, payload, fault)
              r == IF w.ok /\ rxBuf # <<>> THEN RunRead(RdStart, rxBuf)
                   ELSE [rd |-> RdStart, rest |-> rxBuf]
          IN  /\ tx' = tx \o w.out
              /\ frames' = Append(frames, FrameEntry(1, payload, w))
              /\ calls' = Append(calls, CallEntry("set_activity", w))
              /\ rxBuf' = r.rest
              /\ rxRead' = rxRead + RdConsumed(r.rd)
    /\ UNCHANGED <<target, xdg, tmpdir, endpoints, probes, connResult, client_id,
                   pc, newResult, rd, peerScript, peerSent, rxEof, codec, acked,
                   race>>

SetActivity ==
    /\ pc = "returned"
    /\ newResult = "Ok"
    /\ Len(calls) < MaxOps
    /\ \E activity \in Activities, fault \in Faults :
          LET payload == SetActivityPayload(activity, Nonce(Len(calls)))
              w == write_ipc(1, payload, fault)
          IN  /\ tx' = tx \o w.out
              /\ frames' = Append(frames, FrameEntry(1, payload, w))
              /\ calls' = Append(calls, CallEntry("set_activity", w))
    /\ UNCHANGED <<target, xdg, tmpdir, endpoints, probes, connResult, client_id,
                   pc, newResult, rd, rxBuf, rxRead, peerScript, peerSent, rxEof,
                   codec, acked, race>>

\* close with an empty JSON object for a payload
CloseWithBody ==
    /\ pc = "returned"
    /\ newResult = "Ok"
    /\ Len(calls) < MaxOps
    /\ \E fault \in Faults :
          LET w == write_ipc(2, ActivityEmpty, fault)
          IN  /\ tx' = tx \o w.out
              /\ frames' = Append(frames, FrameEntry(2, ActivityEmpty, w))
              /\ calls' = Append(calls, CallEntry("close", w))
    /\ UNCHANGED <<target, xdg, tmpdir, endpoints, probes, connResult, client_id,
                   pc, newResult, rd, rxBuf, rxRead, peerScript, peerSent, rxEof,
                   codec, acked, race>>

Close ==
    /\ pc = "returned"
    /\ newResult = "Ok"
    /\ Len(calls) < MaxOps
    /\ \E fault \in Faults :
          LET w == write_ipc(2, <<>>, fault)
          IN  /\ tx' = tx \o w.out
              /\ frames' = Append(frames, FrameEntry(2, <<>>, w))
              /\ calls' = Append(calls, CallEntry("close", w))
    /\ UNCHANGED <<target, xdg, tmpdir, endpoints, probes, connResult, client_id,
                   pc, newResult, rd, rxBuf, rxRead, peerScript, peerSent, rxEof,
                   codec, acked, race>>

Next ==
    ClientNew \/ ReadStep \/ PeerSend \/ PeerClose \/ PeerAck \/ SetActivity \/ Close

Spec == Init /\ [][Next]_vars

NextLocator == ClientNew

SpecLocator == InitLocator /\ [][NextLocator]_vars

(***************************************************************************)
(* The frame codec on a loop-back buffer: write_ipc writes frames into it, *)
(* read_ipc reads them back until the buffer ends.                         *)
(***************************************************************************)
CodecOpcodes == {0, 1, 2}

CodecPayloads == {<<>>, <<FillByte>>, TextArray, TextReplacement, ActivityHuge}

\* a payload beyond the u32 range is the last one written: the frame that
\* read_ipc makes of the bytes behind it has a length of the order of 2^30
CodecWrite ==
    /\ codec.got = <<>>
    /\ Len(codec.sent) < MaxCodecFrames
    /\ \A k \in DOMAIN codec.sent : BulkAt(codec.sent[k].payload) = {}
    /\ \E opcode \in CodecOpcodes, payload \in CodecPayloads :
          LET w == write_ipc(opcode, payload, NoFault)
          IN  codec' = [codec EXCEPT
                          !.buf = @ \o w.out,
                          !.sent = Append(@, [opcode |-> opcode, payload |-> payload])]
    /\ UNCHANGED <<target, xdg, tmpdir, endpoints, probes, connResult, client_id,
                   pc, newResult, rd, tx, frames, rxBuf, rxRead, peerScript,
                   peerSent, rxEof, calls, acked, race>>

CodecRead ==
    /\ Len(codec.got) < Len(codec.sent)
    /\ LET r == RunRead(RdStart, codec.buf)
       IN  codec' = [codec EXCEPT
                       !.buf = r.rest,
                       !.got = Append(@, [ok |-> r.rd.stage = "done",
                                          payload |-> ReadIpcValue(r.rd),
                                          consumed |-> RdConsumed(r.rd),
                                          before |-> codec.buf])]
    /\ UNCHANGED <<target, xdg, tmpdir, endpoints, probes, connResult, client_id,
                   pc, newResult, rd, tx, frames, rxBuf, rxRead, peerScript,
                   peerSent, rxEof, calls, acked, race>>

NextCodec == CodecWrite \/ CodecRead

SpecCodec == InitCodec /\ [][NextCodec]_vars

(***************************************************************************)
(* Two callers of set_activity and close on one Client.  Each call is the  *)
(* three write_all calls of write_ipc, one step each; when the callers are *)
(* kept exclusive a call starts only when no other call is inside          *)
(* write_ipc.                                                              *)
(***************************************************************************)
InitRace ==
    /\ target = "unix"
    /\ xdg = "set"
    /\ tmpdir = "unset"
    /\ endpoints = NoEndpoints
    /\ client_id = ClientIdA
    /\ peerScript = <<>>
    /\ InitRest
    /\ \E exclusive \in BOOLEAN : race = RaceStart(exclusive)

\* the calls a caller makes: set_activity with a small activity, or close
RaceJobs ==
    {[opcode |-> 1, payload |-> SetActivityPayload(ActivityEmpty, Nonce(n))] :
        n \in 0..1}
        \cup {[opcode |-> 2, payload |-> <<>>]}

\* the buffers of the three write_all calls of write_ipc
WriteParts(opcode, payload) ==
    [opcode |-> to_le_bytes(U32(opcode)),
     len |-> to_le_bytes(HeaderLen(payload)),
     payload |-> payload]

InWrite == {"opcode", "len", "payload"}

NextWrite(stage) ==
    CASE stage = "opcode" -> "len"
      [] stage = "len" -> "payload"
      [] stage = "payload" -> "ok"

\* a caller enters write_ipc
RaceCall ==
    /\ \E c \in Callers, job \in RaceJobs :
          /\ race.at[c] = "idle"
          /\ race.exclusive => \A d \in Callers : race.at[d] \notin InWrite
          /\ race' = [race EXCEPT !.at[c] = "opcode",
                                  !.job[c] = job,
                                  !.order = Append(@, c)]
    /\ UNCHANGED <<target, xdg, tmpdir, endpoints, probes, connResult, client_id,
                   pc, newResult, rd, tx, frames, rxBuf, rxRead, peerScript,
                   peerSent, rxEof, calls, codec, acked>>

\* a caller's next write_all; it may fail, and then write_ipc returns
RaceWrite ==
    /\ \E c \in Callers, failing \in BOOLEAN, cut \in 0..MaxPartial :
          /\ race.at[c] \in InWrite
          /\ LET buf == WriteParts(race.job[c].opcode, race.job[c].payload)[race.at[c]]
                 w == write_all(buf, failing, cut)
             IN  race' = [race EXCEPT
                            !.out = @ \o w.out,
                            !.at[c] = IF w.ok THEN NextWrite(race.at[c]) ELSE "err"]
    /\ UNCHANGED <<target, xdg, tmpdir, endpoints, probes, connResult, client_id,
                   pc, newResult, rd, tx, frames, rxBuf, rxRead, peerScript,
                   peerSent, rxEof, calls, codec, acked>>

NextRace == RaceCall \/ RaceWrite

SpecRace == InitRace /\ [][NextRace]_vars

(***************************************************************************)
(* Properties.                                                             *)
(***************************************************************************)
\* C1: once close() has been called on a Client, every later set_activity
\* or close call on it fails and writes no byte to the transport
C1_NothingAfterClose ==
    \A i, j \in DOMAIN calls :
        (i < j /\ calls[i].op = "close") => (~calls[j].ok /\ calls[j].wrote = 0)

\* C2: once a call on the Client has returned an error, no later call on it
\* writes a byte to the transport or returns success
C2_FailureIsTerminal ==
    \A i, j \in DOMAIN calls :
        (i < j /\ ~calls[i].ok) => (~calls[j].ok /\ calls[j].wrote = 0)

\* The response as the peer put it on the transport: the length its header
\* declares, whether all of the frame has been sent, and its payload.
RespDeclared ==
    peerSent[5] + 256 * peerSent[6] + 65536 * peerSent[7] + 16777216 * peerSent[8]

ResponseArrived == Len(peerSent) >= 8 /\ Len(peerSent) >= 8 + RespDeclared

ResponsePayload == SubSeq(peerSent, 9, 8 + RespDeclared)

\* the response payloads that are JSON, and those of them that are an object
\* with the strings cmd = "DISPATCH" and evt = "READY"
JsonTexts ==
    {TextReady, TextReadyData, TextError, TextNoCmd, TextNoEvt, TextCmdNumber,
     TextArray}

ReadyTexts == {TextReady, TextReadyData}

\* the Handshake frame went out whole and one whole frame was read back
HandshakeWritten == Len(frames) >= 1 /\ frames[1].opcode = 0 /\ frames[1].ok

WholeFrameRead ==
    HandshakeWritten /\ ResponseArrived /\ rxRead = 8 + RespDeclared

\* C3: Client::new returns a Client exactly when a transport was connected,
\* the Handshake frame was written and the one frame read back carries JSON
\* with the strings cmd = "DISPATCH" and evt = "READY"; in every other case
\* no Client is returned, so no call is ever made on one
C3_ReadyIff ==
    /\ pc = "returned" =>
          (newResult = "Ok" <=>
              /\ connResult.kind = "Ok"
              /\ WholeFrameRead
              /\ ResponsePayload \in ReadyTexts)
    /\ pc # "returned" => newResult = "none"
    /\ newResult # "Ok" => calls = <<>>

C3_Witness ==
    /\ pc = "returned"
    /\ newResult = "Ok"
    /\ ResponsePayload = TextReadyData
    /\ calls # <<>>

\* C4: a failed handshake is classified by its cause: Io for a failed write
\* or a stream that ends inside the response frame, Json for a whole frame
\* that is not JSON, HandshakeFailed for a whole frame of JSON that is not a
\* READY; HandshakeFailed and Json are returned only after a whole frame
C4_FailureClasses ==
    (pc = "returned" /\ connResult.kind = "Ok") =>
        /\ newResult = "Io" <=> (~HandshakeWritten \/ ~ResponseArrived)
        /\ (WholeFrameRead /\ ResponsePayload \notin JsonTexts) => newResult = "Json"
        /\ (WholeFrameRead /\ ResponsePayload \in JsonTexts \ ReadyTexts)
              => newResult = "HandshakeFailed"
        /\ newResult = "HandshakeFailed" =>
              (WholeFrameRead /\ ResponsePayload \in JsonTexts \ ReadyTexts)
        /\ newResult = "Json" => (WholeFrameRead /\ ResponsePayload \notin JsonTexts)

C4_Witness ==
    /\ pc = "returned"
    /\ newResult = "HandshakeFailed"
    /\ ResponsePayload = TextError

\* the namespace connect() forms its candidates in, and the candidates of
\* it that accept a connection
UsedNamespace == IF target = "unix" THEN UnixBase(xdg, tmpdir) ELSE "pipe"

LiveCandidates == {i \in Candidates : endpoints[UsedNamespace][i] = "live"}

LowestLive == CHOOSE i \in LiveCandidates : \A j \in LiveCandidates : i <= j

ProbedCandidates == {probes[k].i : k \in DOMAIN probes}

\* C5: a candidate that cannot be connected, for whatever reason, is only
\* passed over: connect() returns no error but ConnectionNotFound, and that
\* only after all 10 candidates
C5_OnlyConnectionNotFound ==
    connResult.kind = "Err" =>
        (connResult.err = "ConnectionNotFound" /\ ProbedCandidates = Candidates)

\* C6: the candidates are tried in ascending order and connect() returns the
\* lowest candidate that accepts a connection, whatever the set of such
\* candidates is; no higher candidate is probed
C6_LowestLiveCandidate ==
    connResult.kind \in {"Ok", "Err"} =>
        /\ \A k, l \in DOMAIN probes : k < l => probes[k].i <= probes[l].i
        /\ LiveCandidates # {} =>
              /\ connResult.kind = "Ok"
              /\ connResult.index = LowestLive
              /\ \A k \in DOMAIN probes : probes[k].i <= LowestLive

\* C7: when no candidate exists, connect() fails with ConnectionNotFound
\* after 10 attempts, one per candidate 0..9 in order, and Client::new fails
\* with the same error and has written nothing
C7_ExhaustionAfterTen ==
    (pc # "start" /\ endpoints = NoEndpoints) =>
        /\ connResult.kind = "Err"
        /\ connResult.err = "ConnectionNotFound"
        /\ Len(probes) = NumCandidates
        /\ \A k \in DOMAIN probes : probes[k].i = k - 1
        /\ pc = "returned"
        /\ newResult = "ConnectionNotFound"
        /\ tx = <<>>
        /\ frames = <<>>

\* C8: read_ipc on the bytes write_ipc produced returns the payload that
\* was written, for every opcode and payload
C8_RoundTrip ==
    \A k \in DOMAIN codec.got :
        codec.got[k].ok /\ codec.got[k].payload = codec.sent[k].payload

\* C9: the length field of every frame written equals the number of
\* payload bytes written behind it, and a payload longer than the field can
\* say is refused with an error instead of being written
C9_HeaderLengthExact ==
    \A k \in DOMAIN frames :
        LET f == frames[k]
            beyond == usize_len(f.payload)[3] # 0 \/ usize_len(f.payload)[4] # 0
        IN  /\ f.ok =>
                  as_usize(from_le_bytes(SubSeq(f.out, 5, 8)))
                      = usize_len(SubSeq(f.out, 9, Len(f.out)))
            /\ beyond => (~f.ok /\ f.out = <<>>)

\* the length the header at the front of b declares
DeclaredLen(b) == b[5] + 256 * b[6] + 65536 * b[7] + 16777216 * b[8]

\* the loop-back buffer as the k-th read_ipc left it
CodecRestAfter(k) ==
    IF k < Len(codec.got) THEN codec.got[k + 1].before ELSE codec.buf

\* C10: read_ipc on a frame whose header declares the length L takes exactly
\* 8 + L bytes; what follows the frame stays in the stream, and is what the
\* next read_ipc starts with
C10_LengthExact ==
    \A k \in DOMAIN codec.got :
        LET g == codec.got[k]
            L == DeclaredLen(g.before)
            rest == CodecRestAfter(k)
            left == usize_len(rest)
        IN  /\ g.ok
            /\ g.consumed = 8 + L
            /\ usize_len(g.before) = Normalize(<<left[1] + 8 + L, left[2], left[3], left[4]>>)
            /\ BulkAt(g.before) = {} => rest = SubSeq(g.before, 8 + L + 1, Len(g.before))

C10_Witness ==
    /\ Len(codec.got) = 2
    /\ codec.got[1].ok
    /\ codec.got[2].ok
    /\ DeclaredLen(codec.got[1].before) > 0
    /\ codec.got[2].before # <<>>
    /\ codec.got[2].before
          = SubSeq(codec.got[1].before, 8 + DeclaredLen(codec.got[1].before) + 1,
                   Len(codec.got[1].before))
    /\ codec.buf = <<>>

(***************************************************************************)
(* set_activity is one-way.                                                *)
(***************************************************************************)
RECURSIVE Acks(_)
Acks(n) == IF n = 0 THEN <<>> ELSE Acks(n - 1) \o AckFrame

Ready == pc = "returned" /\ newResult = "Ok"

SucceededCalls(op) == {k \in DOMAIN calls : calls[k].op = op /\ calls[k].ok}

\* C11: on a Client, every successful set_activity wrote one frame of opcode
\* 1 that carries its payload, and no call read a byte: the bytes read are
\* those of the handshake response, and what the peer sent behind it, one
\* frame for each Message frame it answered, is all there unread
C11_SetActivityOneWay ==
    Ready =>
        /\ Len(frames) = Len(calls) + 1
        /\ \A k \in SucceededCalls("set_activity") :
              LET f == frames[k + 1]
              IN  /\ f.opcode = 1
                  /\ Len(f.out) = 8 + Len(f.payload)
                  /\ SubSeq(f.out, 1, 4) = <<1, 0, 0, 0>>
                  /\ SubSeq(f.out, 9, Len(f.out)) = f.payload
        /\ rxRead = 8 + RespDeclared
        /\ acked <= Cardinality(SucceededCalls("set_activity"))
        /\ rxBuf = Acks(acked)
        /\ peerSent = PeerFrame(1, ResponsePayload) \o rxBuf

\* two calls succeeded, the peer answered both and both answers are unread
C11_Witness ==
    /\ Ready
    /\ Cardinality(SucceededCalls("set_activity")) = 2
    /\ acked = 2
    /\ rxBuf = AckFrame \o AckFrame

(***************************************************************************)
(* close.                                                                  *)
(***************************************************************************)
CloseFrame == <<2, 0, 0, 0, 0, 0, 0, 0>>

\* the step is a call of op that returned Ok
CallReturnsOk(op) ==
    /\ Len(calls') = Len(calls) + 1
    /\ calls'[Len(calls')].op = op
    /\ calls'[Len(calls')].ok

\* C12: a close that succeeds on a Client is one step that puts the 8 bytes
\* of a frame of opcode 2 and length 0 on the transport and nothing else,
\* takes no byte from the receive side, and needs no step of the peer
C12_CloseFrameOnly ==
    [][(Ready /\ CallReturnsOk("close")) =>
          /\ tx' = tx \o CloseFrame
          /\ Len(frames') = Len(frames) + 1
          /\ frames'[Len(frames')].opcode = 2
          /\ frames'[Len(frames')].payload = <<>>
          /\ calls'[Len(calls')].wrote = 8
          /\ rxRead' = rxRead
          /\ rxBuf' = rxBuf
          /\ peerSent' = peerSent]_vars

\* close succeeded as the first call, with nothing from the peer to read
C12_Witness ==
    /\ Ready
    /\ Len(calls) = 1
    /\ calls[1].op = "close"
    /\ calls[1].ok
    /\ rxBuf = <<>>
    /\ acked = 0
    /\ SubSeq(tx, Len(tx) - 7, Len(tx)) = CloseFrame

(***************************************************************************)
(* Order of the frames on the transport.                                   *)
(***************************************************************************)
\* C13: the first frame written is the Handshake frame of the client id, no
\* later frame has opcode 0, and a Message or Close frame is written only
\* after the Handshake frame went out whole and the one frame read back was
\* a READY; until Client::new has returned nothing else is written
C13_HandshakeFirstAndOnce ==
    /\ frames # <<>> =>
          /\ frames[1].opcode = 0
          /\ frames[1].payload = HandshakePayload(client_id)
          /\ SubSeq(tx, 1, Len(frames[1].out)) = frames[1].out
    /\ \A k \in DOMAIN frames : frames[k].opcode = 0 <=> k = 1
    /\ Len(frames) = (IF frames = <<>> THEN 0 ELSE 1) + Len(calls)
    /\ pc # "returned" => Len(frames) <= 1
    /\ Len(frames) >= 2 =>
          /\ frames[1].ok
          /\ rxRead = 8 + RespDeclared
          /\ ResponseArrived
          /\ ResponsePayload \in ReadyTexts
          /\ newResult = "Ok"

\* a Message frame and a Close frame behind the Handshake frame
C13_Witness ==
    /\ Len(frames) = 3
    /\ frames[2].opcode = 1
    /\ frames[3].opcode = 2
    /\ ResponsePayload = TextReady

(***************************************************************************)
(* read_ipc and the chunks the transport delivers.                         *)
(***************************************************************************)
\* what read_ipc has taken from the transport so far
RdBytes == rd.opcode_buf \o rd.len_buf \o rd.payload_buf

\* C14: however the peer's bytes arrive, read_ipc takes them in order and
\* returns only with the whole payload of the length the header declares;
\* it fails, and Client::new returns Io, exactly when the stream ended
\* before the 8 + L bytes of the frame had arrived
C14_ChunkingInsensitive ==
    /\ RdBytes = SubSeq(peerSent, 1, Len(RdBytes))
    /\ pc = "reading" => rd.stage \in {"opcode", "len", "payload"}
    /\ rd.stage = "done" =>
          /\ ResponseArrived
          /\ Len(rd.payload_buf) = RespDeclared
          /\ rd.payload_buf = ResponsePayload
          /\ rd.opcode_buf \o rd.len_buf = SubSeq(peerSent, 1, 8)
    /\ rd.stage = "failed" =>
          /\ rxEof
          /\ ~ResponseArrived
          /\ newResult = "Io"
    /\ (pc = "returned" /\ HandshakeWritten) =>
          /\ rd.stage \in {"done", "failed"}
          /\ rd.stage = "done" <=> ResponseArrived

\* a READY with a data member, delivered so that read_exact had to call
\* read again, was returned whole
C14_Witness ==
    /\ pc = "returned"
    /\ rd.stage = "done"
    /\ rd.split
    /\ rd.payload_buf = TextReadyData
    /\ newResult = "Ok"

(***************************************************************************)
(* Failed writes.                                                          *)
(***************************************************************************)
\* C15: a set_activity or close that returned an error has put no byte of
\* its frame on the transport
C15_ErrorWritesNothing ==
    \A k \in DOMAIN calls : ~calls[k].ok => calls[k].wrote = 0

(***************************************************************************)
(* Two callers.                                                            *)
(***************************************************************************)
\* the frame a call puts on the transport when nothing fails
WholeFrame(job) == write_ipc(job.opcode, job.payload, NoFault).out

\* the whole frames of the calls that returned Ok, in the order of the calls
RECURSIVE FramesInOrder(_)
FramesInOrder(order) ==
    IF order = <<>> THEN <<>>
    ELSE FramesInOrder(SubSeq(order, 1, Len(order) - 1))
            \o (IF race.at[order[Len(order)]] = "ok"
                THEN WholeFrame(race.job[order[Len(order)]])
                ELSE <<>>)

\* C16: when the calls are mutually exclusive, between calls the bytes on
\* the transport are the whole frames of the calls, in call order
C16_ExclusiveWholeFrames ==
    (race.exclusive /\ \A c \in Callers : race.at[c] \notin InWrite) =>
        race.out = FramesInOrder(race.order)

(***************************************************************************)
(* Blocking.                                                               *)
(***************************************************************************)
\* C17: while Client::new waits for the response and the peer has sent
\* nothing it has not read and has not closed, the client can take no step;
\* and when Client::new has returned after writing the Handshake frame,
\* either a whole frame had arrived and was read or the stream had ended
C17_NoTimeout ==
    /\ (pc = "reading" /\ rxBuf = <<>> /\ ~rxEof) =>
          /\ ~ENABLED ReadStep
          /\ ~ENABLED SetActivity
          /\ ~ENABLED Close
    /\ (pc = "returned" /\ HandshakeWritten) =>
          \/ ResponseArrived /\ rxRead = 8 + RespDeclared
          \/ rxEof /\ ~ResponseArrived /\ newResult = "Io"

\* the peer has sent the header and a part of the payload and is silent;
\* the client has read it all and waits
C17_Witness ==
    /\ pc = "reading"
    /\ rxBuf = <<>>
    /\ ~rxEof
    /\ rd.stage = "payload"
    /\ Len(rd.payload_buf) > 0
    /\ Len(peerSent) < 8 + RespDeclared

(***************************************************************************)
(* The base directory of the socket variant.                               *)
(***************************************************************************)
\* C18: when XDG_RUNTIME_DIR is defined, every candidate connect() probes
\* is formed under it, whatever exists there or under TMPDIR; a candidate
\* under TMPDIR is probed only when XDG_RUNTIME_DIR is not defined
C18_DefinedXdgExcludesTmp ==
    (target = "unix" /\ pc # "start") =>
        /\ xdg # "unset" => \A k \in DOMAIN probes : probes[k].ns = "xdg"
        /\ (\E k \in DOMAIN probes : probes[k].ns = "tmp") => xdg = "unset"

\* C19: Client::new always completes with a Client or an Error, and with
\* neither variable defined connect() returns ConnectionNotFound, which
\* Client::new passes on
C19_AlwaysCompletes ==
    /\ pc # "aborted"
    /\ connResult.kind # "panic"
    /\ pc \in {"reading", "returned"} => connResult.kind \in {"Ok", "Err"}
    /\ (target = "unix" /\ xdg = "unset" /\ tmpdir = "unset" /\ pc # "start") =>
          /\ connResult.kind = "Err"
          /\ connResult.err = "ConnectionNotFound"
          /\ pc = "returned"
          /\ newResult = "ConnectionNotFound"

====
